---- MODULE Spec2Model ----
(***************************************************************************)
(* A model of main.py of email-news: the news fetchers, the feed           *)
(* classification of main, the per-section curation of summarize_news and  *)
(* the delivery loop of send_email.                                        *)
(***************************************************************************)
EXTENDS Integers, Sequences, FiniteSets, TLC

VARIABLES
    pc,                 \* the control point of the function being run
    arts,               \* summarize_news: the section's article list
    arts_sorted,        \* summarize_news: outcome of sorted(arts, key=_to_dt, reverse=True)
    resorted,           \* outcome of sorting arts_sorted once more
    sections,           \* the dict section name -> article list
    oracle,             \* what ollama.chat does when asked about a section
    per_section_limit,  \* summarize_news: parameter
    per_section_pool,   \* summarize_news: parameter
    idx,                \* summarize_news: position in SECTION_ORDER
    html_parts,         \* summarize_news: the blocks rendered so far
    prompts,            \* the calls of ollama.chat made so far
    rss_articles,       \* main: what fetch_rss_news returned
    rss_i,              \* main: position of the classification loop in rss_articles
    feeds,              \* what feedparser.parse does for each URL of rss_urls
    now,                \* datetime.now(), in days
    days_back,          \* the fetchers' parameter
    url_i,              \* fetch_rss_news: position in rss_urls
    articles,           \* fetch_rss_news: the articles collected so far
    api,                \* what the NewsAPI request of each section fetch does
    request,            \* fetch_newsapi_news: the date range asked for
    fetched,            \* fetch_newsapi_news: what it returned
    fetch_i,            \* main: which of the section fetches is next
    recipients,         \* config['recipient_emails']
    smtp,               \* what the SMTP server does
    rcpt_i,             \* send_email: position in the recipient list
    attempted,          \* send_email: the recipients sendmail was called for
    printed,            \* the messages printed so far
    config,             \* what config.json holds
    missing,            \* main: the sections listed as having no items
    network             \* the network operations started so far, in order

sortVars == <<arts, arts_sorted, resorted>>
curateVars == <<sections, oracle, per_section_limit, per_section_pool, idx, html_parts, prompts>>
classifyVars == <<rss_articles, rss_i>>
fetchVars == <<feeds, now, days_back, url_i, articles, api, request, fetched, fetch_i>>
sendVars == <<recipients, smtp, rcpt_i, attempted>>

mainVars == <<config, missing>>

vars == <<pc, sortVars, curateVars, classifyVars, fetchVars, sendVars, mainVars, printed, network>>

(***************************************************************************)
(* Bounds of the model.                                                    *)
(***************************************************************************)
MaxArts == 3            \* longest article list drawn for one section
MaxT == 2               \* publication times are 1..MaxT

Times == 1 .. MaxT

(***************************************************************************)
(* Articles.  'published' is what the adapters store: fetch_newsapi_news   *)
(* stores the API's publishedAt, a 'Z' timestamp ("aware"), None ("none")  *)
(* or any other string ("bad"); fetch_rss_news stores pub_date.isoformat() *)
(* of a naive datetime ("naive").  'url' identifies the article.           *)
(***************************************************************************)
NoPublished == [kind |-> "none", t |-> 0]
BadPublished == [kind |-> "bad", t |-> 0]
PublishedValues ==
    [kind : {"aware", "naive"}, t : Times] \cup {NoPublished, BadPublished}

MkArts(sec, pubs) ==
    [i \in 1 .. Len(pubs) |-> [url |-> <<sec, i>>, published |-> pubs[i]]]

SeqsUpTo(S, n) == UNION {[1 .. k -> S] : k \in 0 .. n}

\* The list of a section whose i-th article is published at time i, by the API
\* adapter ("aware") or the feed adapter ("naive"), or carries no timestamp ("none").
ArrivalList(sec, kinds) ==
    MkArts(sec, [i \in 1 .. Len(kinds) |->
                    IF kinds[i] = "none" THEN NoPublished ELSE [kind |-> kinds[i], t |-> i]])

(***************************************************************************)
(* _to_dt: the sort key.  A datetime is its awareness and its time;        *)
(* datetime.min is naive and below every time.                             *)
(***************************************************************************)
datetime_min == [aware |-> FALSE, t |-> 0]

to_dt(x) ==
    LET val == x.published IN
    IF val.kind = "none" THEN datetime_min
    ELSE IF val.kind = "aware" THEN [aware |-> TRUE, t |-> val.t]
    ELSE IF val.kind = "naive" THEN [aware |-> FALSE, t |-> val.t]
    ELSE datetime_min

(***************************************************************************)
(* sorted(arts, key=_to_dt, reverse=True).  Comparing an aware with a      *)
(* naive datetime raises TypeError, and a sort of a list holding both      *)
(* kinds of key compares two of them.  Otherwise the sort is stable:       *)
(* descending by key, equal keys in their original order.                  *)
(***************************************************************************)
Comparable(s) ==
    \A i, j \in 1 .. Len(s) : to_dt(s[i]).aware = to_dt(s[j]).aware

\* x goes after every element whose key is >= its own.
InsertDesc(s, x) ==
    LET before == {i \in 1 .. Len(s) : to_dt(s[i]).t >= to_dt(x).t}
        k == IF before = {} THEN 0
             ELSE CHOOSE i \in before : \A j \in before : j <= i
    IN  SubSeq(s, 1, k) \o <<x>> \o SubSeq(s, k + 1, Len(s))

RECURSIVE StableDesc(_)
StableDesc(s) ==
    IF s = <<>> THEN <<>>
    ELSE InsertDesc(StableDesc(SubSeq(s, 1, Len(s) - 1)), s[Len(s)])

Raised == [raised |-> TRUE, value |-> <<>>]
Returned(v) == [raised |-> FALSE, value |-> v]
NotRun == [raised |-> FALSE, value |-> <<"not run">>]

sorted_by_dt(s) ==
    IF Comparable(s) THEN Returned(StableDesc(s)) ELSE Raised

(***************************************************************************)
(* Values of the variables a specification does not use.                   *)
(***************************************************************************)
IdleSort ==
    /\ arts = <<>>
    /\ arts_sorted = NotRun
    /\ resorted = NotRun

IdleCurate ==
    /\ sections = <<>>
    /\ oracle = <<>>
    /\ per_section_limit = 0
    /\ per_section_pool = 0
    /\ idx = 0
    /\ html_parts = <<>>
    /\ prompts = <<>>

IdleClassify ==
    /\ rss_articles = <<>>
    /\ rss_i = 0

IdleFetch ==
    /\ feeds = <<>>
    /\ now = 0
    /\ days_back = 0
    /\ url_i = 0
    /\ articles = <<>>
    /\ api = <<>>
    /\ request = <<>>
    /\ fetched = NotRun
    /\ fetch_i = 0

IdleSend ==
    /\ recipients = <<>>
    /\ smtp = <<>>
    /\ rcpt_i = 0
    /\ attempted = <<>>

IdleMain ==
    /\ config = <<>>
    /\ missing = <<>>

(***************************************************************************)
(* The sort as a function of its input: SortArts applies it to a drawn     *)
(* list, SortAgain applies it to the list it returned.                     *)
(***************************************************************************)
InitSort ==
    /\ pc = "sort"
    /\ \E pubs \in SeqsUpTo(PublishedValues, MaxArts) : arts = MkArts("Sports News", pubs)
    /\ arts_sorted = NotRun
    /\ resorted = NotRun
    /\ IdleCurate /\ IdleClassify /\ IdleFetch /\ IdleSend /\ IdleMain
    /\ printed = <<>>
    /\ network = <<>>

SortArts ==
    /\ pc = "sort"
    /\ arts_sorted' = sorted_by_dt(arts)
    /\ pc' = IF arts_sorted'.raised THEN "TypeError" ELSE "sorted"
    /\ UNCHANGED <<arts, resorted, curateVars, classifyVars, fetchVars, sendVars, printed, mainVars, network>>

SortAgain ==
    /\ pc = "sorted"
    /\ resorted' = sorted_by_dt(arts_sorted.value)
    /\ pc' = IF resorted'.raised THEN "TypeError" ELSE "resorted"
    /\ UNCHANGED <<arts, arts_sorted, curateVars, classifyVars, fetchVars, sendVars, printed, mainVars, network>>

NextSort == SortArts \/ SortAgain

SpecSort == InitSort /\ [][NextSort]_vars

(***************************************************************************)
(* C4: the per-section sort orders any drawn list, a list mixing 'Z'       *)
(* timestamps, naive timestamps and missing ones included: it returns the  *)
(* list by publication time descending, the articles without a usable      *)
(* timestamp after all the others and in arrival order, and sorting the    *)
(* result again changes nothing.                                           *)
(***************************************************************************)
Usable(a) == a.published.kind \in {"aware", "naive"}

ArrivalNo(a) == a.url[2]

SortedAsClaimed(in, out) ==
    /\ Len(out) = Len(in)
    /\ {out[i] : i \in 1 .. Len(out)} = {in[i] : i \in 1 .. Len(in)}
    /\ \A i, j \in 1 .. Len(out) :
        i < j =>
            /\ (Usable(out[i]) /\ Usable(out[j])) => out[i].published.t >= out[j].published.t
            /\ ~Usable(out[i]) => ~Usable(out[j])
            /\ (~Usable(out[i]) /\ ~Usable(out[j])) => ArrivalNo(out[i]) < ArrivalNo(out[j])

C4_SortOrdersEveryPool ==
    /\ pc # "TypeError"
    /\ pc \in {"sorted", "resorted"} =>
        /\ ~arts_sorted.raised
        /\ SortedAsClaimed(arts, arts_sorted.value)
    /\ pc = "resorted" => resorted = arts_sorted

(***************************************************************************)
(* The ranking oracle.  ollama.chat either raises or returns a text; the   *)
(* text, stripped, with newlines replaced by commas and split on commas,   *)
(* is a sequence of tokens, each stripped.  A token is a string of decimal *)
(* digits ("int", with its value), a string for which isdigit() is true    *)
(* and int() raises ValueError, such as a superscript two ("superscript"), *)
(* or any other string, the empty one included ("text").                   *)
(***************************************************************************)
MaxToks == 3            \* most tokens in a drawn response

IntTok(n) == [kind |-> "int", n |-> n]
TextTok == [kind |-> "text", n |-> 0]
SuperscriptTok == [kind |-> "superscript", n |-> 0]

\* 0 is never the index of a shown article; the others are when the pool is long enough.
Tokens == {IntTok(n) : n \in 0 .. MaxArts} \cup {TextTok, SuperscriptTok}

ChatRaises == [raises |-> TRUE, toks |-> <<>>]
ChatReturns(toks) == [raises |-> FALSE, toks |-> toks]

Responses == {ChatRaises} \cup {ChatReturns(t) : t \in SeqsUpTo(Tokens, MaxToks)}

(***************************************************************************)
(* _pick_indices_with_ollama: the integers of the response, in order.      *)
(* Everything from the call to the return is inside one try, so a raising  *)
(* call and a token on which int() raises both yield [].                   *)
(***************************************************************************)
isdigit(tok) == tok.kind \in {"int", "superscript"}

IntRaises(tok) == tok.kind = "superscript"

RECURSIVE DigitValues(_)
DigitValues(toks) ==
    IF toks = <<>> THEN <<>>
    ELSE IF isdigit(toks[1]) THEN <<toks[1].n>> \o DigitValues(Tail(toks))
    ELSE DigitValues(Tail(toks))

pick_indices_with_ollama(resp) ==
    IF resp.raises THEN <<>>
    ELSE IF \E i \in 1 .. Len(resp.toks) : isdigit(resp.toks[i]) /\ IntRaises(resp.toks[i])
         THEN <<>>
    ELSE DigitValues(resp.toks)

(***************************************************************************)
(* The body of the loop of summarize_news for one non-empty section.       *)
(***************************************************************************)
Min(a, b) == IF a <= b THEN a ELSE b

\* s[:n] for n >= 0
Take(s, n) == SubSeq(s, 1, Min(n, Len(s)))

\* for i in picks: if i in local_map and i not in seen: chosen.append(i)
RECURSIVE KeepValidUnique(_, _, _)
KeepValidUnique(picks, n, seen) ==
    IF picks = <<>> THEN <<>>
    ELSE IF picks[1] \in 1 .. n /\ picks[1] \notin seen
         THEN <<picks[1]>> \o KeepValidUnique(Tail(picks), n, seen \cup {picks[1]})
    ELSE KeepValidUnique(Tail(picks), n, seen)

\* A variant without the fallback.
OrFallback_Never(chosen, n, limit) == chosen

\* if not chosen: chosen = list(range(1, min(len(pool), per_section_limit) + 1))
OrFallback(chosen, n, limit) ==
    IF chosen = <<>> THEN [i \in 1 .. Min(n, limit) |-> i] ELSE chosen

\* A variant that renders every chosen index.
RenderedIndices_NoCut(chosen, limit) == chosen

\* for i in chosen[:per_section_limit]: one <li> of local_map[i]
RenderedIndices(chosen, limit) == Take(chosen, limit)

\* The block of a section: its title and one entry per rendered article.
SectionBlock(name, pool, rendered) ==
    [name |-> name, items |-> [k \in 1 .. Len(rendered) |-> pool[rendered[k]]]]

\* What one iteration does to a section whose list is not empty.
CurateSection(name, list, resp, limit, cap) ==
    LET srt == sorted_by_dt(list) IN
    IF srt.raised THEN [raised |-> TRUE, sorted |-> srt, pool |-> <<>>, block |-> <<>>]
    ELSE LET pool == Take(srt.value, cap)
             picks == pick_indices_with_ollama(resp)
             chosen == OrFallback(KeepValidUnique(picks, Len(pool), {}), Len(pool), limit)
         IN  [raised |-> FALSE, sorted |-> srt, pool |-> pool,
              block |-> SectionBlock(name, pool, RenderedIndices(chosen, limit))]

(***************************************************************************)
(* One iteration as a function of its inputs: the section's list (the i-th *)
(* article published at time i, or without a timestamp), the oracle's      *)
(* response and the two parameters are drawn, CurateOne applies the        *)
(* iteration.                                                              *)
(***************************************************************************)
MaxLimit == 2           \* per_section_limit is drawn from 1..MaxLimit

PickedSection == "Sports News"

InitPick ==
    /\ pc = "pick"
    /\ \E kinds \in SeqsUpTo({"aware", "naive", "none"}, MaxArts) :
        /\ kinds # <<>>
        /\ arts = ArrivalList(PickedSection, kinds)
    /\ arts_sorted = NotRun
    /\ resorted = NotRun
    /\ sections = <<>>
    /\ \E resp \in Responses : oracle = [s \in {PickedSection} |-> resp]
    /\ per_section_limit \in 1 .. MaxLimit
    /\ per_section_pool \in {MaxArts - 1, MaxArts}
    /\ idx = 0
    /\ html_parts = <<>>
    /\ prompts = <<>>
    /\ IdleClassify /\ IdleFetch /\ IdleSend /\ IdleMain
    /\ printed = <<>>
    /\ network = <<>>

CurateOne ==
    /\ pc = "pick"
    /\ LET r == CurateSection(PickedSection, arts, oracle[PickedSection],
                              per_section_limit, per_section_pool) IN
        /\ arts_sorted' = r.sorted
        /\ pc' = IF r.raised THEN "TypeError" ELSE "picked"
        /\ html_parts' = IF r.raised THEN html_parts ELSE Append(html_parts, r.block)
        /\ prompts' = IF r.raised THEN prompts
                      ELSE Append(prompts, [section |-> PickedSection, shown |-> r.pool])
    /\ network' = IF sorted_by_dt(arts).raised THEN network ELSE Append(network, "ollama.chat")
    /\ UNCHANGED <<arts, resorted, sections, oracle, per_section_limit, per_section_pool, idx,
                   classifyVars, fetchVars, sendVars, printed, mainVars>>

NextPick == CurateOne

SpecPick == InitPick /\ [][NextPick]_vars

(***************************************************************************)
(* What the claims say of one iteration, stated on the inputs and the      *)
(* rendered block alone.                                                   *)
(***************************************************************************)
Answer == oracle[PickedSection]

\* The candidate pool: the first per_section_pool articles of the sorted list.
CandidatePool == Take(arts_sorted.value, per_section_pool)

\* The positions of the response whose token is a decimal integer that is an
\* index of the candidate pool and occurs at no earlier position.
FirstValidAt(toks, n) ==
    {i \in 1 .. Len(toks) :
        /\ toks[i].kind = "int"
        /\ toks[i].n \in 1 .. n
        /\ \A j \in 1 .. i - 1 : ~(toks[j].kind = "int" /\ toks[j].n = toks[i].n)}

RECURSIVE InPositionOrder(_, _)
InPositionOrder(toks, P) ==
    IF P = {} THEN <<>>
    ELSE LET i == CHOOSE x \in P : \A y \in P : x <= y
         IN  <<toks[i].n>> \o InPositionOrder(toks, P \ {i})

ValidatedAsClaimed(toks, n) == InPositionOrder(toks, FirstValidAt(toks, n))

ItemsAt(pool, indices) == [k \in 1 .. Len(indices) |-> pool[indices[k]]]

OracleUseless ==
    \/ Answer.raises
    \/ \A i \in 1 .. Len(Answer.toks) :
        ~(Answer.toks[i].kind = "int" /\ Answer.toks[i].n \in 1 .. Len(CandidatePool))

(***************************************************************************)
(* C2: for a non-empty section list, when the oracle call raises or its    *)
(* response holds no integer token that is an index of the candidate pool  *)
(* (an empty response, text, indices out of range), the iteration ends     *)
(* without an exception of the oracle and renders exactly the first        *)
(* min(len(pool), per_section_limit) articles of the sorted list, in that  *)
(* order, which is never an empty selection.                               *)
(***************************************************************************)
C2_FallbackIsTopN ==
    (pc # "pick" /\ ~arts_sorted.raised /\ OracleUseless) =>
        /\ pc = "picked"
        /\ Len(html_parts) = 1
        /\ html_parts[1].items =
            SubSeq(arts_sorted.value, 1, Min(Len(CandidatePool), per_section_limit))
        /\ html_parts[1].items # <<>>

C2_Witness ==
    /\ pc = "picked"
    /\ Answer = ChatReturns(<<IntTok(0), TextTok, IntTok(3)>>)
    /\ Len(arts) = 3
    /\ per_section_pool = 2
    /\ per_section_limit = 2
    /\ Len(html_parts[1].items) = 2

(***************************************************************************)
(* C3: for any response of the oracle, the rendered selection is the       *)
(* integer tokens of the response that are indices of the candidate pool,  *)
(* repeated indices dropped, in first-occurrence order, cut to             *)
(* per_section_limit (the fallback of C2 applying when none is left).      *)
(***************************************************************************)
C3_SelectionIsValidatedTokens ==
    (pc = "picked" /\ ~Answer.raises) =>
        LET v == ValidatedAsClaimed(Answer.toks, Len(CandidatePool)) IN
        v # <<>> =>
            html_parts[1].items = ItemsAt(CandidatePool, Take(v, per_section_limit))

\* The same statement for the responses in which int() converts every token
\* that isdigit() accepts.
C3_HoldsWhenIntConverts ==
    (\A i \in 1 .. Len(Answer.toks) : Answer.toks[i].kind # "superscript")
        => C3_SelectionIsValidatedTokens

\* The example of the specification: a pool of three, limit 2, response "1,1,3".
C3_ExampleReached ==
    /\ pc = "picked"
    /\ Answer = ChatReturns(<<IntTok(1), IntTok(1), IntTok(3)>>)
    /\ Len(CandidatePool) = 3
    /\ per_section_limit = 2
    /\ html_parts[1].items = <<CandidatePool[1], CandidatePool[3]>>

(***************************************************************************)
(* summarize_news: the loop over SECTION_ORDER.  An empty section is       *)
(* skipped; a non-empty one is sorted, shown to the oracle and rendered.   *)
(* The TypeError of the sort is caught nowhere: it ends summarize_news     *)
(* (and main) without a summary.                                           *)
(***************************************************************************)
SECTION_ORDER ==
    << "AI News", "Major International News", "Australian News", "Sports News",
       "Tech News", "Long-Form Articles", "Trending on Social Media" >>

SectionNames == {SECTION_ORDER[i] : i \in 1 .. Len(SECTION_ORDER)}

SkipEmptySection ==
    /\ pc = "summarize_news"
    /\ idx <= Len(SECTION_ORDER)
    /\ sections[SECTION_ORDER[idx]] = <<>>
    /\ idx' = idx + 1
    /\ UNCHANGED <<pc, sortVars, sections, oracle, per_section_limit, per_section_pool,
                   html_parts, prompts, classifyVars, fetchVars, sendVars, printed, mainVars, network>>

CurateNextSection ==
    /\ pc = "summarize_news"
    /\ idx <= Len(SECTION_ORDER)
    /\ sections[SECTION_ORDER[idx]] # <<>>
    /\ LET name == SECTION_ORDER[idx]
           r == CurateSection(name, sections[name], oracle[name],
                              per_section_limit, per_section_pool)
       IN  /\ arts' = sections[name]
           /\ arts_sorted' = r.sorted
           /\ pc' = IF r.raised THEN "TypeError" ELSE pc
           /\ idx' = IF r.raised THEN idx ELSE idx + 1
           /\ html_parts' = IF r.raised THEN html_parts ELSE Append(html_parts, r.block)
           /\ prompts' = IF r.raised THEN prompts
                         ELSE Append(prompts, [section |-> name, shown |-> r.pool])
    /\ UNCHANGED <<resorted, sections, oracle, per_section_limit, per_section_pool,
                   classifyVars, fetchVars, sendVars, printed, mainVars>>
    /\ network' = IF sorted_by_dt(sections[SECTION_ORDER[idx]]).raised THEN network
                  ELSE Append(network, "ollama.chat")

\* return "\n\n".join(html_parts)
ReturnSummary ==
    /\ pc = "summarize_news"
    /\ idx = Len(SECTION_ORDER) + 1
    /\ pc' = "summarized"
    /\ UNCHANGED <<sortVars, curateVars, classifyVars, fetchVars, sendVars, printed, mainVars, network>>

(***************************************************************************)
(* summarize_news on drawn arguments.  At most MaxBusy sections are not    *)
(* empty.  The i-th article of a section is published at time i and comes  *)
(* from the API adapter ("aware") or from the feed adapter ("naive"); a    *)
(* section holds one or two articles.  The oracle fails or answers "2,1".  *)
(***************************************************************************)
MaxBusy == 2            \* most non-empty sections of a drawn dict

BusyKinds == SeqsUpTo({"aware", "naive"}, 2) \ {<<>>}

BusyAnswers == {ChatRaises, ChatReturns(<<IntTok(2), IntTok(1)>>)}

InitCurate ==
    /\ pc = "summarize_news"
    /\ IdleSort
    /\ \E busy \in {b \in SUBSET SectionNames : Cardinality(b) <= MaxBusy} :
        \E kinds \in [busy -> BusyKinds], answers \in [busy -> BusyAnswers] :
            /\ sections = [s \in SectionNames |->
                            IF s \in busy THEN ArrivalList(s, kinds[s]) ELSE <<>>]
            /\ oracle = [s \in SectionNames |->
                            IF s \in busy THEN answers[s] ELSE ChatRaises]
    /\ per_section_limit \in 1 .. MaxLimit
    /\ per_section_pool \in 1 .. 2
    /\ idx = 1
    /\ html_parts = <<>>
    /\ prompts = <<>>
    /\ IdleClassify /\ IdleFetch /\ IdleSend /\ IdleMain
    /\ printed = <<>>
    /\ network = <<>>

NextCurate == SkipEmptySection \/ CurateNextSection \/ ReturnSummary

SpecCurate == InitCurate /\ [][NextCurate]_vars

(***************************************************************************)
(* C1: every block rendered by summarize_news holds at most                *)
(* per_section_limit entries, and each entry is an article of the          *)
(* candidate pool of the block's own section (the first per_section_pool   *)
(* articles of that section's sorted list), never one of another section.  *)
(***************************************************************************)
Elems(s) == {s[i] : i \in 1 .. Len(s)}

CandidatesOf(name) == Take(sorted_by_dt(sections[name]).value, per_section_pool)

C1_SelectionWithinLimitAndPool ==
    \A k \in 1 .. Len(html_parts) :
        LET b == html_parts[k] IN
        /\ Len(b.items) <= per_section_limit
        /\ \A i \in 1 .. Len(b.items) :
            /\ b.items[i] \in Elems(CandidatesOf(b.name))
            /\ b.items[i].url[1] = b.name

\* Two sections rendered, one of them cut to the limit after the oracle chose two.
C1_Witness ==
    /\ pc = "summarized"
    /\ Len(html_parts) = 2
    /\ per_section_limit = 1
    /\ per_section_pool = 2
    /\ \E k \in 1 .. 2 :
        /\ Len(sections[html_parts[k].name]) = 2
        /\ oracle[html_parts[k].name] = ChatReturns(<<IntTok(2), IntTok(1)>>)
        /\ Len(html_parts[k].items) = 1

(***************************************************************************)
(* C7: the oracle is asked at most once per section and is shown only      *)
(* articles of that section; and the block summarize_news renders for a    *)
(* section is a function of that section's list and that section's oracle  *)
(* response alone, whatever the lists and the oracle responses of the      *)
(* other sections are.                                                     *)
(***************************************************************************)
\* The block of a section as its own list and response determine it.
OwnBlock(name) ==
    CurateSection(name, sections[name], oracle[name], per_section_limit, per_section_pool).block

\* What summarize_news returned for a section: nothing when it raised.
BlocksReturnedFor(name) ==
    IF pc = "summarized"
    THEN {html_parts[k] : k \in {j \in 1 .. Len(html_parts) : html_parts[j].name = name}}
    ELSE {}

AskedOnceAboutOwnArticles ==
    /\ \A i, j \in 1 .. Len(prompts) : prompts[i].section = prompts[j].section => i = j
    /\ \A i \in 1 .. Len(prompts) :
        Elems(prompts[i].shown) \subseteq Elems(sections[prompts[i].section])

C7_SectionsIsolated ==
    /\ AskedOnceAboutOwnArticles
    /\ pc \in {"summarized", "TypeError"} =>
        \A name \in SectionNames :
            (sections[name] # <<>> /\ Comparable(sections[name])) =>
                BlocksReturnedFor(name) = {OwnBlock(name)}

\* The same statement for the runs in which the sort of every section succeeds.
C7_HoldsWhenEverySortSucceeds ==
    (\A name \in SectionNames : Comparable(sections[name])) => C7_SectionsIsolated

(***************************************************************************)
(* main: the distribution of the feed articles over the sections.  Of the  *)
(* text of an article (title + ' ' + content, lower-cased) and its source  *)
(* the loop reads only which of its keyword lists match:                   *)
(*   "sport"       one of sports_keywords occurs in the text               *)
(*   "other_sport" football, basketball, rugby or sports occurs            *)
(*   "ai"          'artificial intelligence' or 'machine learning' occurs  *)
(*   "australia"   'australia' or 'australian' occurs                      *)
(*   "au_source"   the source is abc news, sydney morning herald or the    *)
(*                 australian                                              *)
(*   "trending"    'trending' or 'viral' occurs                            *)
(***************************************************************************)
Words == {"sport", "other_sport", "ai", "australia", "au_source", "trending"}

FeedArticle(i, t, words) ==
    [url |-> <<"feed", i>>, published |-> [kind |-> "naive", t |-> t], words |-> words]

\* A variant that tests the AI phrases before the other sports.
Classify_AIBeforeOtherSport(a) ==
    IF "sport" \in a.words THEN "Sports News"
    ELSE IF "ai" \in a.words THEN "AI News"
    ELSE IF "other_sport" \in a.words THEN "skip"
    ELSE IF "australia" \in a.words \/ "au_source" \in a.words THEN "Australian News"
    ELSE IF "trending" \in a.words THEN "Trending on Social Media"
    ELSE "Major International News"

\* The if/elif chain: the section the article is appended to, or "skip" (continue).
Classify(a) ==
    IF "sport" \in a.words THEN "Sports News"
    ELSE IF "other_sport" \in a.words /\ ~("sport" \in a.words) THEN "skip"
    ELSE IF "ai" \in a.words THEN "AI News"
    ELSE IF "australia" \in a.words \/ "au_source" \in a.words THEN "Australian News"
    ELSE IF "trending" \in a.words THEN "Trending on Social Media"
    ELSE "Major International News"

ClassifyNext ==
    /\ pc = "classify"
    /\ rss_i <= Len(rss_articles)
    /\ LET article == rss_articles[rss_i]
           target == Classify(article)
       IN  sections' = IF target = "skip" THEN sections
                       ELSE [sections EXCEPT ![target] = Append(@, article)]
    /\ rss_i' = rss_i + 1
    /\ UNCHANGED <<pc, sortVars, oracle, per_section_limit, per_section_pool, idx, html_parts,
                   prompts, rss_articles, fetchVars, sendVars, printed, mainVars, network>>

ClassifyDone ==
    /\ pc = "classify"
    /\ rss_i = Len(rss_articles) + 1
    /\ pc' = "classified"
    /\ UNCHANGED <<sortVars, curateVars, classifyVars, fetchVars, sendVars, printed, mainVars, network>>

(***************************************************************************)
(* The classification loop on drawn feed articles.  Every section starts   *)
(* with the same number of API articles.                                   *)
(***************************************************************************)
MaxFeedArts == 2        \* most feed articles drawn
MaxApiArts == 1         \* most API articles a section starts with

InitClassify ==
    /\ pc = "classify"
    /\ IdleSort /\ IdleFetch /\ IdleSend /\ IdleMain
    /\ \E n \in 0 .. MaxApiArts :
        sections = [s \in SectionNames |-> ArrivalList(s, [i \in 1 .. n |-> "aware"])]
    /\ \E ws \in SeqsUpTo(SUBSET Words, MaxFeedArts) :
        rss_articles = [i \in 1 .. Len(ws) |-> FeedArticle(i, 1, ws[i])]
    /\ rss_i = 1
    /\ oracle = <<>>
    /\ per_section_limit = 0
    /\ per_section_pool = 0
    /\ idx = 0
    /\ html_parts = <<>>
    /\ prompts = <<>>
    /\ printed = <<>>
    /\ network = <<>>

NextClassify == ClassifyNext \/ ClassifyDone

SpecClassify == InitClassify /\ [][NextClassify]_vars

(***************************************************************************)
(* C5: the classification is a total first-match function.  Every feed     *)
(* article the loop has passed is in exactly one section, or in none when  *)
(* it is discarded, by the precedence: target-sport keyword -> Sports      *)
(* News; else other-sport keyword -> discarded; else AI phrase -> AI News; *)
(* else Australia keyword or Australian source -> Australian News; else    *)
(* trending keyword -> Trending on Social Media; else Major International  *)
(* News.                                                                   *)
(***************************************************************************)
\* The sections that hold the article, counted with their multiplicity.
PlacesOf(a) ==
    {<<s, i>> \in SectionNames \X (1 .. MaxFeedArts + MaxApiArts) :
        i <= Len(sections[s]) /\ sections[s][i] = a}

\* The precedence as the claim lists it: the first rule that matches decides.
RuleMatches(n, w) ==
    CASE n = 1 -> "sport" \in w
      [] n = 2 -> "other_sport" \in w
      [] n = 3 -> "ai" \in w
      [] n = 4 -> "australia" \in w \/ "au_source" \in w
      [] n = 5 -> "trending" \in w
      [] n = 6 -> TRUE

RuleTarget ==
    << {"Sports News"}, {}, {"AI News"}, {"Australian News"},
       {"Trending on Social Media"}, {"Major International News"} >>

FirstMatch(w) == CHOOSE n \in 1 .. 6 : RuleMatches(n, w) /\ \A m \in 1 .. n - 1 : ~RuleMatches(m, w)

C5_ClassificationIsFirstMatch ==
    \A i \in 1 .. Len(rss_articles) :
        LET a == rss_articles[i] IN
        IF i < rss_i
        THEN /\ {p[1] : p \in PlacesOf(a)} = RuleTarget[FirstMatch(a.words)]
             /\ Cardinality(PlacesOf(a)) <= 1
        ELSE PlacesOf(a) = {}

\* An article matching the other-sport, AI, Australia and trending rules was
\* discarded, and one matching the AI, Australia and trending rules went to AI News only.
C5_Witness ==
    /\ pc = "classified"
    /\ Len(rss_articles) = 2
    /\ rss_articles[1].words = {"other_sport", "ai", "australia", "trending"}
    /\ rss_articles[2].words = {"ai", "australia", "au_source", "trending"}
    /\ PlacesOf(rss_articles[1]) = {}
    /\ {p[1] : p \in PlacesOf(rss_articles[2])} = {"AI News"}

(***************************************************************************)
(* The fetchers.  Time is counted in days; timedelta(hours=24) is 1.       *)
(***************************************************************************)
Today == 4              \* the day of datetime.now()

(***************************************************************************)
(* fetch_newsapi_news.  The request is built before the try; the API       *)
(* holds one article per day and answers an accepted request with the      *)
(* articles published within the range asked for.  The statuses: "ok",     *)
(* "429", "400", and "error" for everything that raises inside the try     *)
(* (the connection, raise_for_status, r.json(), an article that is no      *)
(* dict).  Every status but "ok" yields [].                                *)
(***************************************************************************)
ApiStatuses == {"ok", "429", "400", "error"}

\* A variant asking for the window that ends now.
RequestRange_EndsNow(t, back) == [from |-> t - back, to |-> t]

\* to_dt = now - timedelta(hours=24); from_date = to_dt - timedelta(days=days_back)
RequestRange(t, back) == [from |-> (t - 1) - back, to |-> t - 1]

ApiArticle(sec, t) == [url |-> <<sec, t>>, published |-> [kind |-> "aware", t |-> t]]

\* The API's articles within the range, newest first (sortBy=publishedAt).
ApiAnswer(sec, range) ==
    LET n == (range.to - range.from) + 1
    IN  [i \in 1 .. n |-> ApiArticle(sec, range.to - (i - 1))]

fetch_newsapi_news(sec, status, t, back) ==
    IF status = "ok" THEN ApiAnswer(sec, RequestRange(t, back)) ELSE <<>>

Message(text, about) == [msg |-> text, about |-> about]

ApiMessage(status, sec) ==
    CASE status = "429" -> <<Message("NewsAPI rate limit hit (429)", sec)>>
      [] status = "400" -> <<Message("NewsAPI 400", sec)>>
      [] status = "error" -> <<Message("Error fetching from NewsAPI", sec)>>
      [] OTHER -> <<>>

\* sections[name] = fetch_newsapi_news(...), the statements of main in turn.
FetchSection ==
    /\ pc = "fetch_newsapi"
    /\ fetch_i <= Len(SECTION_ORDER)
    /\ LET name == SECTION_ORDER[fetch_i]
           status == api[fetch_i]
           got == fetch_newsapi_news(name, status, now, days_back)
       IN  /\ request' = RequestRange(now, days_back)
           /\ fetched' = Returned(got)
           /\ sections' = [sections EXCEPT ![name] = got]
           /\ printed' = printed \o ApiMessage(status, name)
    /\ fetch_i' = fetch_i + 1
    /\ pc' = IF fetch_i = Len(SECTION_ORDER) THEN "fetch_rss" ELSE pc
    /\ UNCHANGED <<sortVars, oracle, per_section_limit, per_section_pool, idx, html_parts,
                   prompts, classifyVars, feeds, now, days_back, url_i, articles, api, sendVars, mainVars>>
    /\ network' = Append(network, "newsapi everything")

(***************************************************************************)
(* fetch_rss_news.  For each URL feedparser.parse raises or returns a      *)
(* feed.  An entry has published_parsed or not, and is well formed or      *)
(* lacks its title or link, so that reading entry.title raises             *)
(* AttributeError; the title is read only after the date test has passed.  *)
(* The try encloses the whole loop over the entries of one feed: an        *)
(* exception ends that feed and keeps what was appended before.            *)
(***************************************************************************)
Accepted(entry, cutoff) == entry.has_date /\ entry.t >= cutoff

RECURSIVE ReadEntries(_, _, _, _)
ReadEntries(feed_no, entries, e, cutoff) ==
    IF e > Len(entries) THEN [raised |-> FALSE, got |-> <<>>]
    ELSE IF Accepted(entries[e], cutoff) /\ entries[e].malformed
         THEN [raised |-> TRUE, got |-> <<>>]
    ELSE LET rest == ReadEntries(feed_no, entries, e + 1, cutoff)
             mine == IF Accepted(entries[e], cutoff)
                     THEN << [url |-> <<"feed", feed_no, e>>,
                              published |-> [kind |-> "naive", t |-> entries[e].t],
                              words |-> entries[e].words] >>
                     ELSE <<>>
         IN  [raised |-> rest.raised, got |-> mine \o rest.got]

\* cutoff_date = datetime.now() - timedelta(days=days_back)
CutoffDate(t, back) == t - back

FetchFeed ==
    /\ pc = "fetch_rss"
    /\ url_i <= Len(feeds)
    /\ LET feed == feeds[url_i]
           read == IF feed.raises THEN [raised |-> TRUE, got |-> <<>>]
                   ELSE ReadEntries(url_i, feed.entries, 1, CutoffDate(now, days_back))
       IN  /\ articles' = articles \o read.got
           /\ printed' = IF read.raised
                         THEN Append(printed, Message("Error fetching RSS", url_i))
                         ELSE printed
    /\ url_i' = url_i + 1
    /\ UNCHANGED <<pc, sortVars, curateVars, classifyVars, feeds, now, days_back, api,
                   request, fetched, fetch_i, sendVars, mainVars>>
    /\ network' = Append(network, "feedparser.parse")

\* return articles; rss_articles = fetch_rss_news([...])
ReturnArticles ==
    /\ pc = "fetch_rss"
    /\ url_i = Len(feeds) + 1
    /\ rss_articles' = articles
    /\ rss_i' = 1
    /\ pc' = "classify"
    /\ UNCHANGED <<sortVars, curateVars, fetchVars, sendVars, printed, mainVars, network>>

(***************************************************************************)
(* The two fetchers on drawn inputs: the last section fetch of main, then  *)
(* fetch_rss_news on two URLs.  An entry is dated the day before the       *)
(* cutoff ("old"), the day of the cutoff ("boundary") or today ("fresh"),  *)
(* or has no date.                                                         *)
(***************************************************************************)
MaxEntries == 2         \* most entries of a drawn feed

Entry(has_date, t, malformed) ==
    [has_date |-> has_date, t |-> t, malformed |-> malformed, words |-> {}]

EntriesFor(t, back) ==
    { Entry(FALSE, 0, FALSE),
      Entry(TRUE, (t - back) - 1, FALSE), Entry(TRUE, t - back, FALSE), Entry(TRUE, t, FALSE),
      Entry(TRUE, (t - back) - 1, TRUE), Entry(TRUE, t, TRUE) }

FeedsFor(t, back) ==
    {[raises |-> TRUE, entries |-> <<>>]}
        \cup {[raises |-> FALSE, entries |-> es] : es \in SeqsUpTo(EntriesFor(t, back), MaxEntries)}

InitFetch ==
    /\ pc = "fetch_newsapi"
    /\ IdleSort /\ IdleClassify /\ IdleSend /\ IdleMain
    /\ sections = [s \in SectionNames |-> <<>>]
    /\ oracle = <<>>
    /\ per_section_limit = 0
    /\ per_section_pool = 0
    /\ idx = 0
    /\ html_parts = <<>>
    /\ prompts = <<>>
    /\ now = Today
    /\ days_back \in 1 .. 2
    /\ feeds \in [1 .. 2 -> FeedsFor(now, days_back)]
    /\ url_i = 1
    /\ articles = <<>>
    /\ api \in [{Len(SECTION_ORDER)} -> ApiStatuses]
    /\ request = [from |-> 0, to |-> 0]
    /\ fetched = NotRun
    /\ fetch_i = Len(SECTION_ORDER)
    /\ printed = <<>>
    /\ network = <<>>

NextFetch == FetchSection \/ FetchFeed \/ ReturnArticles

SpecFetch == InitFetch /\ [][NextFetch]_vars

(***************************************************************************)
(* C8: a source that fails contributes zero articles, and the articles of  *)
(* every other source are returned unchanged: a failing section fetch      *)
(* returns [], fetch_rss_news returns no article of a feed whose read      *)
(* raised, and every article of the other feeds that passes the date test. *)
(***************************************************************************)
LastApi == api[Len(SECTION_ORDER)]

FeedFailed(f) ==
    \E i \in 1 .. Len(printed) : printed[i].msg = "Error fetching RSS" /\ printed[i].about = f

ArticlesOfFeed(list, f) == SelectSeq(list, LAMBDA a : a.url[2] = f)

\* The entries of a feed that pass the date test, as the articles made of them.
RECURSIVE DatedFrom(_, _, _)
DatedFrom(f, e, cutoff) ==
    IF e > Len(feeds[f].entries) THEN <<>>
    ELSE (IF feeds[f].entries[e].has_date /\ feeds[f].entries[e].t >= cutoff
          THEN << [url |-> <<"feed", f, e>>,
                   published |-> [kind |-> "naive", t |-> feeds[f].entries[e].t],
                   words |-> feeds[f].entries[e].words] >>
          ELSE <<>>) \o DatedFrom(f, e + 1, cutoff)

C8_FailedSourceYieldsNothing ==
    /\ (pc # "fetch_newsapi" /\ LastApi # "ok") => sections[SECTION_ORDER[Len(SECTION_ORDER)]] = <<>>
    /\ pc = "classify" =>
        \A f \in 1 .. Len(feeds) :
            IF FeedFailed(f) THEN ArticlesOfFeed(rss_articles, f) = <<>>
            ELSE ArticlesOfFeed(rss_articles, f) = DatedFrom(f, 1, now - days_back)

\* The same statement when no feed raises after one of its entries was appended.
C8_HoldsWhenNothingWasAppendedBefore ==
    (\A f \in 1 .. Len(feeds) : \A e \in 1 .. Len(feeds[f].entries) :
        (feeds[f].entries[e].malformed /\ feeds[f].entries[e].t >= now - days_back) => e = 1)
        => C8_FailedSourceYieldsNothing

RequiredKeys == {"newsapi_key", "gmail_user", "gmail_app_password", "recipient_emails"}

ConfigWith(keys) == [file |-> TRUE, keys |-> keys]

ConfigAbsent == [file |-> FALSE, keys |-> {}]

SendError == Message("Error sending email", "smtp")

\* smtplib.SMTP(...), starttls(), login(...), and the evaluation of
\* config['recipient_emails'] at the head of the loop, all inside the one try.
OpenSession ==
    /\ pc = "send_email"
    /\ network' = Append(network, "smtp connect")
    /\ IF smtp.login_ok /\ {"gmail_user", "gmail_app_password", "recipient_emails"} \subseteq config.keys
       THEN /\ pc' = "sending"
            /\ rcpt_i' = 1
            /\ printed' = printed
       ELSE /\ pc' = "sent"
            /\ rcpt_i' = rcpt_i
            /\ printed' = Append(printed, SendError)
    /\ UNCHANGED <<sortVars, curateVars, classifyVars, fetchVars, recipients, smtp, attempted,
                   mainVars>>

\* One iteration of the for loop: server.sendmail(...) to the next recipient.
\* An exception leaves the loop and the try: the except clause prints it.
SendNext ==
    /\ pc = "sending"
    /\ rcpt_i <= Len(recipients)
    /\ LET to == recipients[rcpt_i]
       IN  /\ attempted' = Append(attempted, to)
           /\ IF to \in smtp.refuses
              THEN /\ pc' = "sent"
                   /\ rcpt_i' = rcpt_i
                   /\ printed' = Append(printed, SendError)
              ELSE /\ pc' = pc
                   /\ rcpt_i' = rcpt_i + 1
                   /\ printed' = printed
    /\ network' = Append(network, "smtp sendmail")
    /\ UNCHANGED <<sortVars, curateVars, classifyVars, fetchVars, recipients, smtp, mainVars>>

\* server.quit() and the success message.
Quit ==
    /\ pc = "sending"
    /\ rcpt_i = Len(recipients) + 1
    /\ pc' = "sent"
    /\ printed' = Append(printed, Message("Email sent successfully", "smtp"))
    /\ UNCHANGED <<sortVars, curateVars, classifyVars, fetchVars, sendVars, mainVars, network>>

(***************************************************************************)
(* send_email on drawn recipient lists and mail servers.                   *)
(***************************************************************************)
MaxRecipients == 3      \* longest recipient list, and the number of addresses

Addresses == 1 .. MaxRecipients

Distinct(s) == \A i, j \in 1 .. Len(s) : s[i] = s[j] => i = j

RecipientLists == {l \in SeqsUpTo(Addresses, MaxRecipients) : Distinct(l)}

InitSend ==
    /\ pc = "send_email"
    /\ IdleSort /\ IdleCurate /\ IdleClassify /\ IdleFetch
    /\ config = ConfigWith(RequiredKeys)
    /\ missing = <<>>
    /\ recipients \in RecipientLists
    /\ smtp \in [login_ok : BOOLEAN, refuses : SUBSET Addresses]
    /\ rcpt_i = 0
    /\ attempted = <<>>
    /\ printed = <<>>
    /\ network = <<>>

NextSend == OpenSession \/ SendNext \/ Quit

SpecSend == InitSend /\ [][NextSend]_vars

Reported(text) == \E i \in 1 .. Len(printed) : printed[i].msg = text

Refused(i) == recipients[i] \in smtp.refuses

(***************************************************************************)
(* C10: when send_email has returned after a successful login, a send was  *)
(* attempted for every recipient that comes after a recipient whose send   *)
(* failed, and if any send failed the error message was printed.           *)
(***************************************************************************)
C10_EverySendIsIndependent ==
    (pc = "sent" /\ smtp.login_ok) =>
        /\ \A i, j \in 1 .. Len(recipients) :
            (i < j /\ Refused(i)) => \E a \in 1 .. Len(attempted) : attempted[a] = recipients[j]
        /\ (\E i \in 1 .. Len(recipients) : Refused(i)) => Reported("Error sending email")

\* What the code does hold: the sends attempted are the recipients up to and
\* including the first refused one, and any refusal is reported.
C10_StopsAtFirstFailure ==
    (pc = "sent" /\ smtp.login_ok) =>
        /\ \E n \in 0 .. Len(recipients) :
            /\ attempted = SubSeq(recipients, 1, n)
            /\ \A i \in 1 .. n - 1 : ~Refused(i)
            /\ n < Len(recipients) => (n >= 1 /\ Refused(n))
        /\ (\E i \in 1 .. Len(recipients) : Refused(i)) <=> Reported("Error sending email")

\* A first recipient was refused and a second one was never tried.
C10_FailingRun ==
    /\ pc = "sent"
    /\ smtp.login_ok
    /\ Len(recipients) = 2
    /\ Refused(1)
    /\ attempted = <<recipients[1]>>

(***************************************************************************)
(* main.  load_config, validate_source_ids, the seven section fetches, the *)
(* feed fetch, the classification loop, the missing-sections block and the *)
(* empty check, get_weather, get_reddit_trends, summarize_news with its    *)
(* default limit and pool, and send_email.                                 *)
(***************************************************************************)
DefaultLimit == 7

DefaultPool == 12

MainDaysBack == 1

\* config = load_config(): a missing file is reported and ends the process.
LoadConfig ==
    /\ pc = "load_config"
    /\ IF config.file
       THEN /\ pc' = "validate_source_ids"
            /\ printed' = printed
       ELSE /\ pc' = "sys.exit(1)"
            /\ printed' = Append(printed, Message("config.json not found", "config"))
    /\ UNCHANGED <<sortVars, curateVars, classifyVars, fetchVars, sendVars, mainVars, network>>

\* major_ids = validate_source_ids(config['newsapi_key'], ...): the subscript
\* raises KeyError before the call; the request may fail, which is printed
\* as a warning.  The result is used nowhere.
ValidateSourceIds ==
    /\ pc = "validate_source_ids"
    /\ IF "newsapi_key" \in config.keys
       THEN /\ pc' = "fetch_newsapi"
            /\ network' = Append(network, "newsapi sources")
            /\ \E answered \in BOOLEAN :
                printed' = IF answered THEN printed
                           ELSE Append(printed, Message("[WARN] Could not validate source IDs", "config"))
       ELSE /\ pc' = "KeyError"
            /\ network' = network
            /\ printed' = printed
    /\ UNCHANGED <<sortVars, curateVars, classifyVars, fetchVars, sendVars, mainVars>>

\* A variant of the empty check that goes on when no article was fetched.
CheckArticles_NeverReturns ==
    /\ pc = "classified"
    /\ missing' = SelectSeq(SECTION_ORDER, LAMBDA name : Len(sections[name]) = 0)
    /\ pc' = "get_weather"
    /\ UNCHANGED <<sortVars, curateVars, classifyVars, fetchVars, sendVars, config, printed,
                   network>>

\* missing = [name for name in SECTION_ORDER if len(sections[name]) == 0] and
\* the check of total_articles.
CheckArticles ==
    /\ pc = "classified"
    /\ missing' = SelectSeq(SECTION_ORDER, LAMBDA name : Len(sections[name]) = 0)
    /\ IF \A name \in SectionNames : Len(sections[name]) = 0
       THEN /\ pc' = "return"
            /\ printed' = Append(printed, Message("No articles fetched.", "main"))
       ELSE /\ pc' = "get_weather"
            /\ printed' = printed
    /\ UNCHANGED <<sortVars, curateVars, classifyVars, fetchVars, sendVars, config, network>>

\* weather = get_weather(config): its own try returns a text in every case.
GetWeather ==
    /\ pc = "get_weather"
    /\ pc' = "get_reddit_trends"
    /\ network' = Append(network, "weather")
    /\ UNCHANGED <<sortVars, curateVars, classifyVars, fetchVars, sendVars, mainVars, printed>>

\* reddit_trends = get_reddit_trends(), then the call of summarize_news.
GetRedditTrends ==
    /\ pc = "get_reddit_trends"
    /\ pc' = "summarize_news"
    /\ network' = Append(network, "reddit")
    /\ UNCHANGED <<sortVars, curateVars, classifyVars, fetchVars, sendVars, mainVars, printed>>

\* full_summary = f"...{news_summary}{missing_html}...", then send_email(...).
ComposeSummary ==
    /\ pc = "summarized"
    /\ pc' = "send_email"
    /\ UNCHANGED <<sortVars, curateVars, classifyVars, fetchVars, sendVars, mainVars, printed,
                   network>>

(***************************************************************************)
(* main in drawn surroundings: the configuration file is absent, complete  *)
(* or lacks one setting; at most MaxBusy section requests are answered and *)
(* the others fail in one way; one feed raises, is empty or holds one      *)
(* fresh entry; the oracle fails or answers "2,1" for every section; the   *)
(* mail server accepts everything or refuses the first recipient.          *)
(***************************************************************************)
MainConfigs ==
    {ConfigAbsent} \cup {ConfigWith(RequiredKeys \ m) : m \in {{}} \cup {{x} : x \in RequiredKeys}}

MainApis ==
    {[i \in 1 .. Len(SECTION_ORDER) |-> IF SECTION_ORDER[i] \in busy THEN "ok" ELSE failure] :
        busy \in {b \in SUBSET SectionNames : Cardinality(b) <= MaxBusy},
        failure \in ApiStatuses \ {"ok"}}

MainFeeds ==
    {[raises |-> TRUE, entries |-> <<>>], [raises |-> FALSE, entries |-> <<>>]}
        \cup {[raises |-> FALSE, entries |-> <<[Entry(TRUE, Today, FALSE) EXCEPT !.words = w]>>] :
                w \in {{}} \cup {{x} : x \in Words}}

InitMain ==
    /\ pc = "load_config"
    /\ IdleSort /\ IdleClassify
    /\ config \in MainConfigs
    /\ missing = <<>>
    /\ sections = [s \in SectionNames |-> <<>>]
    /\ oracle \in {[s \in SectionNames |-> a] : a \in BusyAnswers}
    /\ per_section_limit = DefaultLimit
    /\ per_section_pool = DefaultPool
    /\ idx = 1
    /\ html_parts = <<>>
    /\ prompts = <<>>
    /\ now = Today
    /\ days_back = MainDaysBack
    /\ feeds \in [{1} -> MainFeeds]
    /\ url_i = 1
    /\ articles = <<>>
    /\ api \in MainApis
    /\ request = [from |-> 0, to |-> 0]
    /\ fetched = NotRun
    /\ fetch_i = 1
    /\ recipients = <<1, 2>>
    /\ smtp \in {[login_ok |-> TRUE, refuses |-> r] : r \in {{}, {1}}}
    /\ rcpt_i = 0
    /\ attempted = <<>>
    /\ printed = <<>>
    /\ network = <<>>

NextMain ==
    \/ LoadConfig \/ ValidateSourceIds
    \/ FetchSection \/ FetchFeed \/ ReturnArticles
    \/ ClassifyNext \/ ClassifyDone
    \/ CheckArticles \/ GetWeather \/ GetRedditTrends
    \/ SkipEmptySection \/ CurateNextSection \/ ReturnSummary
    \/ ComposeSummary \/ OpenSession \/ SendNext \/ Quit

SpecMain == InitMain /\ [][NextMain]_vars

AllClassified == pc \notin {"load_config", "validate_source_ids", "fetch_newsapi", "fetch_rss",
                            "classify", "sys.exit(1)", "KeyError"}

NothingFetched == \A name \in SectionNames : sections[name] = <<>>

Started(op) == \E i \in 1 .. Len(network) : network[i] = op

(***************************************************************************)
(* C6: in main, when every section is empty after the fetches and the      *)
(* classification loop, summarize_news is never entered and ollama.chat    *)
(* never called, send_email is never entered and no SMTP session opened,   *)
(* and the next step of main is the return after "No articles fetched.",   *)
(* which is no exception and no sys.exit.                                  *)
(***************************************************************************)
C6_EmptyRunReturnsEarly ==
    /\ [](AllClassified /\ NothingFetched =>
            /\ pc \in {"classified", "return"}
            /\ pc = "return" <=> Reported("No articles fetched.")
            /\ prompts = <<>> /\ html_parts = <<>> /\ attempted = <<>>
            /\ ~Started("ollama.chat") /\ ~Started("smtp connect") /\ ~Started("smtp sendmail"))
    /\ [][(pc = "classified" /\ NothingFetched) => pc' = "return"]_vars

\* A feed article of the other sports was skipped, every request failed, and
\* main returned.
C6_Witness ==
    /\ pc = "return"
    /\ NothingFetched
    /\ Len(rss_articles) = 1
    /\ Len(missing) = Len(SECTION_ORDER)
    /\ Reported("No articles fetched.")

ConfigIncomplete == ~config.file \/ config.keys # RequiredKeys

Aborted == pc \in {"sys.exit(1)", "KeyError"}

(***************************************************************************)
(* C11: in main, when config.json is absent or lacks one of newsapi_key,   *)
(* gmail_user, gmail_app_password and recipient_emails, no network         *)
(* operation is ever started, and the run does nothing but read the        *)
(* configuration and abort.                                                *)
(***************************************************************************)
C11_ConfigFailureBeforeAnyWork ==
    ConfigIncomplete =>
        /\ network = <<>>
        /\ pc \in {"load_config", "validate_source_ids"} \/ Aborted

\* The same statement for an absent file and for a missing newsapi_key, the
\* two failures main meets before its first request.
C11_HoldsForFileAndNewsApiKey ==
    (~config.file \/ "newsapi_key" \notin config.keys) => C11_ConfigFailureBeforeAnyWork

\* Without gmail_user the whole run took place and ended in send_email.
C11_FailingRun ==
    /\ config = ConfigWith(RequiredKeys \ {"gmail_user"})
    /\ pc = "sent"
    /\ Started("newsapi sources") /\ Started("ollama.chat") /\ Started("smtp connect")
    /\ Reported("Error sending email")

(***************************************************************************)
(* The renderer of summarize_news, character by character.  A text is a    *)
(* sequence of one-character strings; a field that is None or missing is   *)
(* the empty text, which the code treats alike (art.get(...) or '').       *)
(***************************************************************************)
Significant == {"<", ">", "&", "'", "\""}

Characters == {"a", " "} \cup Significant

RECURSIVE lstrip(_)
lstrip(t) == IF t # <<>> /\ Head(t) = " " THEN lstrip(Tail(t)) ELSE t

RECURSIVE rstrip(_)
rstrip(t) == IF t # <<>> /\ t[Len(t)] = " " THEN rstrip(SubSeq(t, 1, Len(t) - 1)) ELSE t

\* str.strip()
strip(t) == rstrip(lstrip(t))

SummaryCut == 300

\* f"<li><strong>{title}</strong>: {summary} <a href='{link}'>[{source}]</a></li>"
ListItem(title, summary, link, source) ==
    <<"<", "l", "i", ">", "<", "s", "t", "r", "o", "n", "g", ">">> \o title
        \o <<"<", "/", "s", "t", "r", "o", "n", "g", ">", ":", " ">> \o summary
        \o <<" ", "<", "a", " ", "h", "r", "e", "f", "=", "'">> \o link
        \o <<"'", ">", "[">> \o source
        \o <<"]", "<", "/", "a", ">", "<", "/", "l", "i", ">">>

\* The body of the render loop for one article.
RenderArticle(art) ==
    LET title == strip(art.title)
        summary == Take(strip(art.content), SummaryCut)
        link == IF art.url = <<>> THEN <<"#">> ELSE art.url
        source == IF art.source = <<>> THEN <<"U", "n", "k", "n", "o", "w", "n">> ELSE art.source
    IN  ListItem(title, summary, link, source)

\* section_html.append(f"<li>...</li>") for the article at hand.
RenderEntry ==
    /\ pc = "render"
    /\ html_parts' = <<RenderArticle(arts[1])>>
    /\ pc' = "rendered"
    /\ UNCHANGED <<arts, arts_sorted, resorted, sections, oracle, per_section_limit,
                   per_section_pool, idx, prompts, classifyVars, fetchVars, sendVars,
                   mainVars, printed, network>>

(***************************************************************************)
(* The renderer on drawn articles: every title of up to MaxText            *)
(* characters, with a few contents and source names.                       *)
(***************************************************************************)
MaxText == 2            \* longest drawn title

Contents == {<<>>, <<"a">>, <<"a", "&">>, <<" ", "<", " ">>}

Sources == {<<>>, <<"a">>, <<">">>, <<"\"", "a">>}

InitRender ==
    /\ pc = "render"
    /\ \E title \in SeqsUpTo(Characters, MaxText), content \in Contents, source \in Sources :
        arts = << [title |-> title, content |-> content, url |-> <<"a">>, source |-> source] >>
    /\ arts_sorted = NotRun
    /\ resorted = NotRun
    /\ IdleCurate /\ IdleClassify /\ IdleFetch /\ IdleSend /\ IdleMain
    /\ printed = <<>>
    /\ network = <<>>

NextRender == RenderEntry

SpecRender == InitRender /\ [][NextRender]_vars

Count(t, c) == Cardinality({i \in 1 .. Len(t) : t[i] = c})

\* The character references an escaped text may hold.
Entities ==
    { <<"&", "a", "m", "p", ";">>, <<"&", "l", "t", ";">>, <<"&", "g", "t", ";">>,
      <<"&", "q", "u", "o", "t", ";">>, <<"&", "#", "x", "2", "7", ";">>,
      <<"&", "#", "3", "9", ";">> }

EntityAt(t, i) ==
    \E en \in Entities : i + Len(en) - 1 <= Len(t) /\ SubSeq(t, i, i + Len(en) - 1) = en

HasSignificant(t) == \E i \in 1 .. Len(t) : t[i] \in Significant

RenderedEntry == html_parts[1]

\* The entry of an article without any text, whose markup is the template's own.
BareEntry == ListItem(<<>>, <<>>, arts[1].url, <<>>)

(***************************************************************************)
(* C12: the HTML entry rendered for an article holds the characters <, >,  *)
(* ' and " only where the template of the entry has them, and every & of   *)
(* the entry begins a character reference: the title, the content and the  *)
(* source name add no markup-significant character in unescaped form.      *)
(***************************************************************************)
C12_TextIsEscaped ==
    pc = "rendered" =>
        /\ \A c \in Significant \ {"&"} : Count(RenderedEntry, c) = Count(BareEntry, c)
        /\ \A i \in 1 .. Len(RenderedEntry) : RenderedEntry[i] = "&" => EntityAt(RenderedEntry, i)

\* The same statement for the articles whose texts hold no such character.
C12_HoldsForPlainText ==
    (~HasSignificant(arts[1].title) /\ ~HasSignificant(arts[1].content)
        /\ ~HasSignificant(arts[1].source)) => C12_TextIsEscaped

\* A title "<a" was rendered as it is.
C12_FailingRun ==
    /\ pc = "rendered"
    /\ arts[1].title = <<"<", "a">>
    /\ arts[1].content = <<>> /\ arts[1].source = <<>>
    /\ Count(RenderedEntry, "<") = Count(BareEntry, "<") + 1

(***************************************************************************)
(* The document composed by main: the blocks returned by summarize_news    *)
(* followed by the "Sections with no items" block built from missing.      *)
(***************************************************************************)
Composed == pc \in {"send_email", "sending", "sent"}

\* The articles selected for a section: none when its list is empty or its
\* sort raised.
SelectedOf(name) ==
    IF sections[name] = <<>> \/ sorted_by_dt(sections[name]).raised THEN <<>>
    ELSE OwnBlock(name).items

BlockNames == [k \in 1 .. Len(html_parts) |-> html_parts[k].name]

DocumentAsClaimed ==
    /\ BlockNames = SelectSeq(SECTION_ORDER, LAMBDA name : SelectedOf(name) # <<>>)
    /\ \A k \in 1 .. Len(html_parts) : html_parts[k].items = SelectedOf(html_parts[k].name)
    /\ missing = SelectSeq(SECTION_ORDER, LAMBDA name : SelectedOf(name) = <<>>)
    /\ \A name \in SectionNames :
        (name \in Elems(BlockNames)) # (name \in Elems(missing))

RenderingReached == html_parts # <<>>

RunEnded == pc \in {"sys.exit(1)", "KeyError", "return", "TypeError", "sent"}

(***************************************************************************)
(* C13: a run of main that rendered a block ends with a composed document, *)
(* and a composed document holds one block for each section with at least  *)
(* one selected article, in the order of SECTION_ORDER, with these         *)
(* articles as its entries, and lists every other section of SECTION_ORDER *)
(* in the "Sections with no items" block: each section is in exactly one   *)
(* of the two places.                                                      *)
(***************************************************************************)
C13_DocumentCoversEverySection ==
    /\ Composed => DocumentAsClaimed
    /\ (RenderingReached /\ RunEnded) => Composed

\* The statement about the documents that are composed.
C13_HoldsForComposedDocuments == Composed => DocumentAsClaimed

\* A block was rendered, then the sort of a later section raised: a section
\* with articles is in no document.
C13_FailingRun ==
    /\ pc = "TypeError"
    /\ Len(html_parts) = 1
    /\ html_parts[1].name = "AI News"
    /\ sections["Sports News"] # <<>>

\* A document of two blocks and five listed sections was composed.
C13_ComposedRun ==
    /\ pc = "send_email"
    /\ Len(html_parts) = 2
    /\ Len(missing) = 5

====
